---- MODULE Spec2Model ----
(***************************************************************************)
(* Augmenter recipes of textattack/augmentation/recipes.py.                *)
(*                                                                         *)
(* Spec       : one process that constructs an EasyDataAugmenter, line by  *)
(*              line of its __init__, and calls augment on it; and that    *)
(*              constructs a recipe of one of the classes that forward     *)
(*              their keyword arguments to the base class, and calls       *)
(*              augment on it.                                             *)
(* SpecRuns   : one script run twice, each run in an interpreter process   *)
(*              of its own, from the same random seed.                     *)
(***************************************************************************)
EXTENDS Integers, Sequences, FiniteSets, TLC

(***************************************************************************)
(* Bounds of the model.                                                    *)
(***************************************************************************)
\* transformations_per_example is drawn from -1 .. MaxN
MaxN == 8
\* pct_words_to_swap is the fraction p / PctDen, p drawn from -1 .. PctDen + 1
PctDen == 1
\* a forwarding recipe's transformations_per_example is drawn from -1 .. MaxRecipeN
MaxRecipeN == 1
\* the number of words of the long text
LongTextWords == 32
\* the two runs of one script request a count in 1 .. MaxRunN
MaxRunN == 2

PctValues == -1 .. (PctDen + 1)
NValues == -1 .. MaxN
RecipeNValues == -1 .. MaxRecipeN
\* the seeds random.seed is called with
Seeds == {0, 1}
\* the string-hash salts (PYTHONHASHSEED) an interpreter process can start with
HashSeeds == {0, 1}
Texts == {"the quick fox", "a dog"}

(***************************************************************************)
(* Strings a sub-recipe can return.  String 0 is one every sub-recipe can  *)
(* return; the others belong to one sub-recipe each.                       *)
(***************************************************************************)
SubAttrs == <<"synonym_replacement", "random_deletion", "random_swap", "random_insertion">>
SubClasses == <<"WordNetAugmenter", "DeletionAugmenter", "SwapAugmenter", "SynonymInsertionAugmenter">>
NumSubs == Len(SubAttrs)
OwnStrings(i) == {0, 2 * i - 1, 2 * i}

Min(a, b) == IF a <= b THEN a ELSE b
Max(a, b) == IF a >= b THEN a ELSE b
Range(s) == {s[i] : i \in 1 .. Len(s)}
NoDup(s) == \A i, j \in 1 .. Len(s) : i # j => s[i] # s[j]
Take(s, k) == SubSeq(s, 1, Min(Max(k, 0), Len(s)))

VARIABLES
    pc,         \* "idle", or the line of EasyDataAugmenter.__init__ about to run
    args,       \* the arguments of the constructor call in progress
    n_aug_each, \* the local of __init__ (0 before line 46 has run)
    self,       \* the attributes set so far on the object under construction / constructed
    usable,     \* the constructor has returned and the caller holds the object
    raised,     \* outcome of the last constructor call: "none", "ok", "AssertionError"
    rng,        \* state of the process-wide pseudo-random source
    hashSeed,   \* the string-hash salt of this interpreter process
    result,     \* the list the last augment call returned
    candidates, \* the strings the four sub-recipes returned in that call
    produced,   \* how many strings they returned, repeats counted
    subCalls,   \* the sub-recipe calls of that call: <<attribute, text>>
    returned,   \* an augment call has returned and the caller has not yet taken its list
    recipe,     \* a recipe of one of the forwarding classes, <<>> when there is none
    d_pc,       \* its augment call: "idle", "chain" (building one output), "done"
    original_text,          \* the words of the text being augmented
    current_text,           \* the words of the output being built
    modified,               \* the positions of current_text modified so far
    words_swapped,          \* how many candidates this output has accepted
    all_transformed_texts,  \* the outputs built so far in this call
    todo,                   \* how many outputs are still to be built
    accepted,               \* the last accepted candidate, <<>> when there is none
    runInput,   \* what two runs of one script share: the seed, the count, the sub-recipes' outputs
    runs        \* the two runs, one interpreter process each

vars == <<pc, args, n_aug_each, self, usable, raised, rng, hashSeed, result,
          candidates, produced, subCalls, returned,
          recipe, d_pc, original_text, current_text, modified, words_swapped,
          all_transformed_texts, todo, accepted, runInput, runs>>

driverVars == <<d_pc, original_text, current_text, modified, words_swapped,
                all_transformed_texts, todo, accepted>>
\* what no step of the one-process specification changes
procVars == <<hashSeed, runInput, runs>>
easyVars == <<pc, n_aug_each, self, usable, result, candidates, produced, subCalls, returned>>

(***************************************************************************)
(* The pseudo-random source and random.shuffle.                            *)
(***************************************************************************)
RngNext(s) == (5 * s + 3) % 4
RandBelow(s, k) == s % k

RECURSIVE RngAdvance(_, _)
RngAdvance(s, k) == IF k = 0 THEN s ELSE RngAdvance(RngNext(s), k - 1)

Swap(x, i, j) == [x EXCEPT ![i] = x[j], ![j] = x[i]]

\* for i in reversed(range(1, len(x))): j = randbelow(i + 1); x[i], x[j] = x[j], x[i]
\* (positions are 1-based here); yields <<shuffled list, new state>>
RECURSIVE ShuffleFrom(_, _, _)
ShuffleFrom(x, i, s) ==
    IF i <= 1 THEN <<x, s>>
    ELSE LET s1 == RngNext(s)
             j == RandBelow(s1, i) + 1
         IN ShuffleFrom(Swap(x, i, j), i - 1, s1)

Shuffle(x, s) == ShuffleFrom(x, Len(x), s)

(***************************************************************************)
(* list(set(xs)): the order a set of strings is iterated in follows the    *)
(* strings' hashes, which are salted per interpreter process.              *)
(***************************************************************************)
StrHash(str, salt) == ((str + 1) * (salt + 1)) % 11

HashBefore(a, b, salt) ==
    \/ StrHash(a, salt) < StrHash(b, salt)
    \/ StrHash(a, salt) = StrHash(b, salt) /\ a < b

RECURSIVE SetIterOrder(_, _)
SetIterOrder(S, salt) ==
    IF S = {} THEN <<>>
    ELSE LET first == CHOOSE a \in S : \A b \in S \ {a} : HashBefore(a, b, salt)
         IN <<first>> \o SetIterOrder(S \ {first}, salt)

ListOfSet(xs, salt) == SetIterOrder(Range(xs), salt)

(***************************************************************************)
(* Words are sequences of characters.                                      *)
(***************************************************************************)
W_the == <<"t", "h", "e">>
W_this == <<"t", "h", "i", "s">>
W_first == <<"f", "i", "r", "s", "t">>
W_quick == <<"q", "u", "i", "c", "k">>
W_fox == <<"f", "o", "x">>
W_b == <<"b">>

\* the default stopword list of StopwordModification() (nltk's, not among the
\* sources), as far as the words above go
DefaultStopwords == {W_the, W_this}
\* the list TextFoolerAugmenter passes, as far as the words above go
TextFoolerStopwords == {W_the, W_this, W_first}

(***************************************************************************)
(* Constraint instances.  obj is the identity of the Python object:        *)
(* <<"module", k>> for the two created when the module is imported,        *)
(* <<owner, k>> for one created by the constructor call of recipe owner.   *)
(***************************************************************************)
RepeatModification(obj) == [type |-> "RepeatModification", obj |-> obj]
StopwordModification(obj, stopwords) ==
    [type |-> "StopwordModification", obj |-> obj, stopwords |-> stopwords]
MinWordLength(obj, min_length) ==
    [type |-> "MinWordLength", obj |-> obj, min_length |-> min_length]
MaxWordsPerturbed(obj, max_num_words) ==
    [type |-> "MaxWordsPerturbed", obj |-> obj, max_num_words |-> max_num_words]
LevenshteinEditDistance(obj, max_edit_distance) ==
    [type |-> "LevenshteinEditDistance", obj |-> obj, max_edit_distance |-> max_edit_distance]
InputColumnModification(obj) == [type |-> "InputColumnModification", obj |-> obj]
\* constraints scored by a model (embedding distance, part of speech, sentence encoder)
Scored(type, obj) == [type |-> type, obj |-> obj, scored |-> TRUE]

DEFAULT_CONSTRAINTS ==
    <<RepeatModification(<<"module", 0>>), StopwordModification(<<"module", 1>>, DefaultStopwords)>>

\* the edit-distance bound DeepWordBugAugmenter passes
MaxEditDistance == 30
\* the minimum word length PruthiAugmenter passes
PruthiMinLength == 4

Atomic(name) == [kind |-> "atomic", name |-> name]
Composite(children) == [kind |-> "composite", children |-> children]

ForwardingClasses ==
    {"SwapAugmenter", "SynonymInsertionAugmenter", "WordNetAugmenter", "DeletionAugmenter",
     "EmbeddingAugmenter", "CharSwapAugmenter", "CheckListAugmenter", "CLAREAugmenter",
     "PruthiAugmenter", "TextBuggerAugmenter", "TextFoolerAugmenter", "DeepWordBugAugmenter",
     "BackTranslationAugmenter"}

FourCharacterEdits ==
    Composite(<<Atomic("WordSwapNeighboringCharacterSwap"),
                Atomic("WordSwapRandomCharacterSubstitution"),
                Atomic("WordSwapRandomCharacterDeletion"),
                Atomic("WordSwapRandomCharacterInsertion")>>)

\* the transformation each recipe's constructor builds
DeepWordBugTransformation(use_all_transformations) ==
    IF use_all_transformations
    THEN FourCharacterEdits
    ELSE Atomic("WordSwapRandomCharacterSubstitution")

RecipeTransformation(cls, kw) ==
    CASE cls = "SwapAugmenter" -> Atomic("WordInnerSwapRandom")
      [] cls = "SynonymInsertionAugmenter" -> Atomic("WordInsertionRandomSynonym")
      [] cls = "WordNetAugmenter" -> Atomic("WordSwapWordNet")
      [] cls = "DeletionAugmenter" -> Atomic("WordDeletion")
      [] cls = "EmbeddingAugmenter" -> Atomic("WordSwapEmbedding")
      [] cls = "CharSwapAugmenter" -> FourCharacterEdits
      [] cls = "CheckListAugmenter" ->
            Composite(<<Atomic("WordSwapChangeNumber"), Atomic("WordSwapChangeLocation"),
                        Atomic("WordSwapChangeName"), Atomic("WordSwapExtend"),
                        Atomic("WordSwapContract")>>)
      [] cls = "CLAREAugmenter" ->
            Composite(<<Atomic("WordSwapMaskedLM"), Atomic("WordInsertionMaskedLM"),
                        Atomic("WordMergeMaskedLM")>>)
      [] cls = "PruthiAugmenter" ->
            Composite(<<Atomic("WordSwapNeighboringCharacterSwap"),
                        Atomic("WordSwapRandomCharacterDeletion"),
                        Atomic("WordSwapRandomCharacterInsertion"),
                        Atomic("WordSwapQWERTY")>>)
      [] cls = "TextBuggerAugmenter" ->
            Composite(<<Atomic("WordSwapRandomCharacterInsertion"),
                        Atomic("WordSwapRandomCharacterDeletion"),
                        Atomic("WordSwapNeighboringCharacterSwap"),
                        Atomic("WordSwapHomoglyphSwap"),
                        Atomic("WordSwapEmbedding")>>)
      [] cls = "TextFoolerAugmenter" -> Atomic("WordSwapEmbedding")
      [] cls = "DeepWordBugAugmenter" -> DeepWordBugTransformation(kw.use_all_transformations)
      [] cls = "BackTranslationAugmenter" -> Atomic("BackTranslation")

\* the constraint lists the constructors pass to the base class

\* DEFAULT_CONSTRAINTS[1] in place of DEFAULT_CONSTRAINTS[0]
CheckListConstraints_SecondDefault == <<DEFAULT_CONSTRAINTS[2]>>
\* [DEFAULT_CONSTRAINTS[0]] (Python counts from 0)
CheckListConstraints == <<DEFAULT_CONSTRAINTS[1]>>

\* the list without its StopwordModification()
PruthiConstraints_NoStopword(owner, max_num_word_swaps) ==
    <<MinWordLength(<<owner, 0>>, PruthiMinLength),
      MaxWordsPerturbed(<<owner, 2>>, max_num_word_swaps),
      RepeatModification(<<owner, 3>>)>>

PruthiConstraints(owner, max_num_word_swaps) ==
    <<MinWordLength(<<owner, 0>>, PruthiMinLength),
      StopwordModification(<<owner, 1>>, DefaultStopwords),
      MaxWordsPerturbed(<<owner, 2>>, max_num_word_swaps),
      RepeatModification(<<owner, 3>>)>>

TextFoolerConstraints(owner) ==
    <<RepeatModification(<<owner, 0>>),
      StopwordModification(<<owner, 1>>, TextFoolerStopwords),
      InputColumnModification(<<owner, 2>>),
      Scored("WordEmbeddingDistance", <<owner, 3>>),
      Scored("PartOfSpeech", <<owner, 4>>)>>
    \o <<Scored("UniversalSentenceEncoder", <<owner, 5>>)>>

\* the edit-distance constraint added in the else branch only
DeepWordBugConstraints_ElseOnly(owner, use_all_transformations) ==
    <<RepeatModification(<<owner, 0>>), StopwordModification(<<owner, 1>>, DefaultStopwords)>>
    \o (IF use_all_transformations THEN <<>>
        ELSE <<LevenshteinEditDistance(<<owner, 2>>, MaxEditDistance)>>)

DeepWordBugConstraints(owner, use_all_transformations) ==
    <<RepeatModification(<<owner, 0>>), StopwordModification(<<owner, 1>>, DefaultStopwords)>>
    \o <<LevenshteinEditDistance(<<owner, 2>>, MaxEditDistance)>>

RecipeConstraints(cls, owner, kw) ==
    CASE cls \in {"SwapAugmenter", "SynonymInsertionAugmenter", "WordNetAugmenter",
                  "DeletionAugmenter", "CharSwapAugmenter"} -> DEFAULT_CONSTRAINTS
      [] cls = "EmbeddingAugmenter" ->
            DEFAULT_CONSTRAINTS \o <<Scored("WordEmbeddingDistance", <<owner, 0>>)>>
      [] cls = "CheckListAugmenter" -> CheckListConstraints
      [] cls \in {"CLAREAugmenter", "TextBuggerAugmenter"} ->
            DEFAULT_CONSTRAINTS \o <<Scored("UniversalSentenceEncoder", <<owner, 0>>)>>
      [] cls = "PruthiAugmenter" -> PruthiConstraints(owner, kw.max_num_word_swaps)
      [] cls = "TextFoolerAugmenter" -> TextFoolerConstraints(owner)
      [] cls = "DeepWordBugAugmenter" ->
            DeepWordBugConstraints(owner, kw.use_all_transformations)
      [] cls = "BackTranslationAugmenter" -> <<>>

\* the identity of the list object passed as constraints=
RecipeConstraintList(cls, owner) ==
    IF cls \in {"SwapAugmenter", "SynonymInsertionAugmenter", "WordNetAugmenter",
                "DeletionAugmenter", "CharSwapAugmenter"}
    THEN "DEFAULT_CONSTRAINTS"
    ELSE owner

\* the keyword arguments a constructor takes besides the two it forwards
DefaultKw == [use_all_transformations |-> TRUE, max_num_word_swaps |-> 1]

(***************************************************************************)
(* The Augmenter base class (textattack/augmentation/augmenter.py is not   *)
(* among the sources): its constructor validates the two selection         *)
(* parameters; augment returns a duplicate-free list of at most            *)
(* transformations_per_example strings.                                    *)
(***************************************************************************)
AugmenterInitOk(pct, tpe) == 0 <= pct /\ pct <= PctDen /\ tpe > 0

AugmenterObject(cls, owner, pct, tpe, kw) ==
    [cls |-> cls,
     transformation |-> RecipeTransformation(cls, kw),
     constraints |-> RecipeConstraints(cls, owner, kw),
     constraints_list |-> RecipeConstraintList(cls, owner),
     pct_words_to_swap |-> pct,
     transformations_per_example |-> tpe]

RECURSIVE SortedSeq(_)
SortedSeq(S) ==
    IF S = {} THEN <<>>
    ELSE LET m == CHOOSE a \in S : \A b \in S : a <= b
         IN <<m>> \o SortedSeq(S \ {m})

\* what sub-recipe i may return from one augment call
SubAugmentOutputs(i, sub) ==
    {SortedSeq(S) : S \in {T \in SUBSET OwnStrings(i) :
                             Cardinality(T) <= sub.transformations_per_example}}

(***************************************************************************)
(* EasyDataAugmenter.__init__, one action per line.                        *)
(***************************************************************************)
\* 0.0 < pct_words_to_swap in place of 0.0 <= pct_words_to_swap
PctAssert_Strict(pct) == 0 < pct /\ pct <= PctDen
\* the assert of line 40 left out
PctAssert_Absent(pct) == TRUE
\* line 40
PctAssert(pct) == 0 <= pct /\ pct <= PctDen
\* transformations_per_example >= 0 in place of > 0
TpeAssert_NonNegative(tpe) == tpe >= 0
\* lines 41-43
TpeAssert(tpe) == tpe > 0
\* the quotient rounded up in place of the floor
NAugEach_Ceil(tpe) == Max((tpe + 3) \div 4, 1)
\* every sub-recipe given the whole count
NAugEach_Whole(tpe) == Max(tpe, 1)
\* line 46
NAugEach(tpe) == Max(tpe \div 4, 1)

EasyInitCall(pct, tpe) ==
    /\ pc = "idle"
    /\ ~usable
    /\ recipe = <<>>
    /\ raised = "none"
    /\ pc' = "L40"
    /\ args' = [cls |-> "EasyDataAugmenter", pct_words_to_swap |-> pct,
                transformations_per_example |-> tpe]
    /\ self' = <<>>
    /\ n_aug_each' = 0
    /\ usable' = FALSE
    /\ raised' = "none"
    /\ UNCHANGED <<rng, procVars, result, candidates, produced, subCalls, returned, recipe, driverVars>>

Raise(exc) ==
    /\ pc' = "idle"
    /\ raised' = exc
    /\ self' = <<>>
    /\ n_aug_each' = 0
    /\ UNCHANGED <<args, usable, rng, procVars, result, candidates, produced, subCalls, returned, recipe, driverVars>>

Goto(line) ==
    /\ pc' = line
    /\ UNCHANGED <<args, usable, raised, rng, procVars, result, candidates, produced, subCalls, returned, recipe, driverVars>>

SetAttr(obj, name, value) ==
    [a \in DOMAIN obj \cup {name} |-> IF a = name THEN value ELSE obj[a]]

L40 ==
    /\ pc = "L40"
    /\ IF PctAssert(args.pct_words_to_swap)
       THEN Goto("L41") /\ UNCHANGED <<self, n_aug_each>>
       ELSE Raise("AssertionError")

L41 ==
    /\ pc = "L41"
    /\ IF TpeAssert(args.transformations_per_example)
       THEN Goto("L44") /\ UNCHANGED <<self, n_aug_each>>
       ELSE Raise("AssertionError")

L44 ==
    /\ pc = "L44"
    /\ self' = SetAttr(self, "pct_words_to_swap", args.pct_words_to_swap)
    /\ Goto("L45") /\ UNCHANGED n_aug_each

L45 ==
    /\ pc = "L45"
    /\ self' = SetAttr(self, "transformations_per_example", args.transformations_per_example)
    /\ Goto("L46") /\ UNCHANGED n_aug_each

L46 ==
    /\ pc = "L46"
    /\ n_aug_each' = NAugEach(args.transformations_per_example)
    /\ Goto("L48") /\ UNCHANGED self

\* self.<attr> = <Class>(pct_words_to_swap=pct_words_to_swap, transformations_per_example=n_aug_each)
SubRecipeLine(i, line, next) ==
    /\ pc = line
    /\ IF AugmenterInitOk(args.pct_words_to_swap, n_aug_each)
       THEN /\ self' = SetAttr(self, SubAttrs[i],
                               AugmenterObject(SubClasses[i], SubAttrs[i], args.pct_words_to_swap,
                                               n_aug_each, DefaultKw))
            /\ IF next = "idle"
               THEN /\ pc' = "idle"
                    /\ usable' = TRUE
                    /\ raised' = "ok"
                    /\ UNCHANGED <<args, rng, procVars, result, candidates, produced, subCalls, returned, recipe, driverVars>>
               ELSE Goto(next)
            /\ UNCHANGED n_aug_each
       ELSE Raise("AssertionError")

L48 == SubRecipeLine(1, "L48", "L52")
L52 == SubRecipeLine(2, "L52", "L56")
L56 == SubRecipeLine(3, "L56", "L60")
L60 == SubRecipeLine(4, "L60", "idle")

(***************************************************************************)
(* EasyDataAugmenter.augment                                               *)
(***************************************************************************)
Concat4(o) == o[1] \o o[2] \o o[3] \o o[4]

\* the same without list(set(...))
DedupShuffleTruncate_NoSet(augmented_text, tpe, s, salt) ==
    LET sh == Shuffle(augmented_text, s)
    IN <<Take(sh[1], tpe), sh[2]>>

\* lines 70-72 on the concatenated list: <<returned list, new random state>>
DedupShuffleTruncate(augmented_text, tpe, s, salt) ==
    LET sh == Shuffle(ListOfSet(augmented_text, salt), s)
    IN <<Take(sh[1], tpe), sh[2]>>

\* augment stores the size of what it returns
SelfAfterAugment_StoresCount(obj, out) ==
    [obj EXCEPT !.transformations_per_example = Len(out)]

\* the attributes of the recipe after an augment call
SelfAfterAugment(obj, out) == obj

EasyAugment(text) ==
    /\ pc = "idle"
    /\ usable
    /\ ~returned
    /\ \E o1 \in SubAugmentOutputs(1, self[SubAttrs[1]]),
          o2 \in SubAugmentOutputs(2, self[SubAttrs[2]]),
          o3 \in SubAugmentOutputs(3, self[SubAttrs[3]]),
          o4 \in SubAugmentOutputs(4, self[SubAttrs[4]]) :
             LET augmented_text == Concat4(<<o1, o2, o3, o4>>)
                 \* every sub-recipe call costs one draw
                 r == DedupShuffleTruncate(augmented_text, self.transformations_per_example,
                                           RngAdvance(rng, NumSubs), hashSeed)
             IN /\ result' = r[1]
                /\ rng' = r[2]
                /\ candidates' = Range(augmented_text)
                /\ produced' = Len(augmented_text)
                /\ self' = SelfAfterAugment(self, r[1])
    /\ subCalls' = [i \in 1 .. NumSubs |-> <<SubAttrs[i], text>>]
    /\ returned' = TRUE
    /\ UNCHANGED <<pc, args, n_aug_each, usable, raised, procVars, recipe, driverVars>>

\* the caller takes the returned list
TakeResult ==
    /\ returned
    /\ returned' = FALSE
    /\ result' = <<>>
    /\ candidates' = {}
    /\ produced' = 0
    /\ subCalls' = <<>>
    /\ UNCHANGED <<pc, args, n_aug_each, self, usable, raised, rng, procVars, recipe, driverVars>>

(***************************************************************************)
(* Texts the forwarding recipes augment, and the character-level edit      *)
(* distance between two texts.                                             *)
(***************************************************************************)
ShortText == <<W_the, W_quick, W_first, W_fox, W_this>>
LongText == [i \in 1 .. LongTextWords |-> W_b]
\* the long text is given to the one recipe that bounds the edit distance
DriverTexts == {ShortText, LongText}
TextsFor(r) == IF r.cls = "DeepWordBugAugmenter" THEN DriverTexts ELSE {ShortText}

RECURSIVE JoinFrom(_, _)
JoinFrom(words, i) ==
    IF i > Len(words) THEN <<>>
    ELSE IF i = Len(words) THEN words[i]
    ELSE words[i] \o <<" ">> \o JoinFrom(words, i + 1)

\* the text as one string: the words with a blank between them
Join(words) == JoinFrom(words, 1)

RECURSIVE CommonPrefix(_, _, _)
CommonPrefix(a, b, k) ==
    IF k < Len(a) /\ k < Len(b) /\ a[k + 1] = b[k + 1] THEN CommonPrefix(a, b, k + 1) ELSE k

RECURSIVE CommonSuffix(_, _, _)
CommonSuffix(a, b, k) ==
    IF k < Len(a) /\ k < Len(b) /\ a[Len(a) - k] = b[Len(b) - k]
    THEN CommonSuffix(a, b, k + 1) ELSE k

Min3(x, y, z) == Min(x, Min(y, z))

\* one row of the dynamic programme: row[j + 1] is the distance between the
\* first i characters of a and the first j of b.  The columns lo .. hi are
\* appended to row, which holds the columns before lo.
RECURSIVE LevRow(_, _, _, _, _, _)
LevRow(ch, b, prev, lo, hi, row) ==
    IF lo > hi THEN row
    ELSE IF lo = hi
    THEN Append(row, Min3(prev[lo + 1] + 1, row[lo] + 1,
                          prev[lo] + (IF ch = b[lo] THEN 0 ELSE 1)))
    ELSE LET mid == (lo + hi) \div 2
             left == LevRow(ch, b, prev, lo, mid, row)
         IN IF Len(left) > 0 THEN LevRow(ch, b, prev, mid + 1, hi, left) ELSE left

\* the rows for the characters lo .. hi of a, after the row prev
RECURSIVE LevRows(_, _, _, _, _)
LevRows(a, b, lo, hi, prev) ==
    IF lo > hi THEN prev
    ELSE IF lo = hi THEN LevRow(a[lo], b, prev, 1, Len(b), <<lo>>)
    ELSE LET mid == (lo + hi) \div 2
             upper == LevRows(a, b, lo, mid, prev)
         IN IF Len(upper) > 0 THEN LevRows(a, b, mid + 1, hi, upper) ELSE upper

LevDP(a, b) == LevRows(a, b, 1, Len(a), [j \in 1 .. (Len(b) + 1) |-> j - 1])[Len(b) + 1]

\* the Levenshtein distance; a common prefix and a common suffix do not count
Levenshtein(a, b) ==
    LET p == CommonPrefix(a, b, 0)
        a1 == SubSeq(a, p + 1, Len(a))
        b1 == SubSeq(b, p + 1, Len(b))
        q == CommonSuffix(a1, b1, 0)
    IN LevDP(SubSeq(a1, 1, Len(a1) - q), SubSeq(b1, 1, Len(b1) - q))

WordDistance(u, v) == IF u = v THEN 0 ELSE Levenshtein(u, v)

RECURSIVE SumWordDistance(_, _, _)
SumWordDistance(x, y, i) ==
    IF i > Len(x) THEN 0
    ELSE WordDistance(x[i], y[i]) + SumWordDistance(x, y, i + 1)

CountOf(a, c) == Cardinality({k \in 1 .. Len(a) : a[k] = c})

\* how many characters of a have no partner in b, counted per character
RECURSIVE Surplus(_, _, _)
Surplus(a, b, cs) ==
    IF cs = {} THEN 0
    ELSE LET c == CHOOSE x \in cs : TRUE
         IN Max(CountOf(a, c) - CountOf(b, c), 0) + Surplus(a, b, cs \ {c})

\* Levenshtein(Join(x), Join(y)) <= bound, for texts of as many words.
\* Editing word by word is one way to edit the text, so the sum of the
\* words' distances, upper, bounds the text's distance from above; every
\* edit removes at most one surplus character on either side, so the surplus
\* bounds it from below.  Between the two the distance itself is computed.
WithinEditDistance(x, y, upper, bound) ==
    IF upper <= bound THEN TRUE
    ELSE LET a == Join(x)
             b == Join(y)
         IN IF Max(Surplus(a, b, Range(a)), Surplus(b, a, Range(b))) > bound THEN FALSE
            ELSE Levenshtein(a, b) <= bound

(***************************************************************************)
(* Transformations (textattack.transformations is not among the sources):  *)
(* each rewrites the word at one eligible position.  s is the state of the *)
(* random source the rewrite draws from.                                   *)
(***************************************************************************)
Letters == <<"z", "j">>
RandomLetter(s) == Letters[RandBelow(s, Len(Letters)) + 1]

RemoveAt(w, p) == SubSeq(w, 1, p - 1) \o SubSeq(w, p + 1, Len(w))
InsertAt(w, p, ch) == SubSeq(w, 1, p - 1) \o <<ch>> \o SubSeq(w, p, Len(w))

CharacterEdits ==
    {"WordSwapNeighboringCharacterSwap", "WordSwapRandomCharacterSubstitution",
     "WordSwapRandomCharacterDeletion", "WordSwapRandomCharacterInsertion",
     "WordSwapQWERTY", "WordSwapHomoglyphSwap"}

\* the word a word-level transformation puts in place of w
WordAlt(w) ==
    CASE w = W_quick -> <<"f", "a", "s", "t">>
      [] w = W_fox -> <<"w", "o", "l", "f">>
      [] OTHER -> w \o <<"s">>

PerturbAtomic(name, w, s) ==
    LET p == RandBelow(s, Len(w)) + 1
    IN CASE name = "WordSwapNeighboringCharacterSwap" ->
               IF Len(w) < 2 THEN w
               ELSE LET q == RandBelow(s, Len(w) - 1) + 1 IN Swap(w, q, q + 1)
         [] name \in {"WordSwapRandomCharacterSubstitution", "WordSwapQWERTY",
                      "WordSwapHomoglyphSwap"} ->
               IF Len(w) < 1 THEN w ELSE [w EXCEPT ![p] = RandomLetter(s)]
         [] name = "WordSwapRandomCharacterDeletion" ->
               IF Len(w) < 2 THEN w ELSE RemoveAt(w, p)
         [] name = "WordSwapRandomCharacterInsertion" ->
               IF Len(w) < 1 THEN w ELSE InsertAt(w, p, RandomLetter(s))
         [] OTHER -> WordAlt(w)

\* a composite transformation applies one of its children, drawn at random
Perturb(transformation, w, s) ==
    IF transformation.kind = "composite"
    THEN LET n == Len(transformation.children)
         IN PerturbAtomic(transformation.children[RandBelow(s, n) + 1].name, w, s)
    ELSE PerturbAtomic(transformation.name, w, s)

(***************************************************************************)
(* The constraint chain (textattack.constraints is not among the sources). *)
(* Pre-transformation constraints say which positions may be modified;     *)
(* the others accept or reject a candidate.                                *)
(***************************************************************************)
PreTransformation ==
    {"RepeatModification", "StopwordModification", "MinWordLength", "InputColumnModification"}

PreOk(c, words, i, mod) ==
    CASE c.type = "RepeatModification" -> i \notin mod
      [] c.type = "StopwordModification" -> words[i] \notin c.stopwords
      [] c.type = "MinWordLength" -> Len(words[i]) >= c.min_length
      [] OTHER -> TRUE

PostOk(c, original, words, mod, upper) ==
    CASE c.type = "LevenshteinEditDistance" ->
             WithinEditDistance(original, words, upper, c.max_edit_distance)
      [] c.type = "MaxWordsPerturbed" -> Cardinality(mod) <= c.max_num_words
      [] OTHER -> TRUE

EligibleAt(constraints, words, i, mod) ==
    \A k \in 1 .. Len(constraints) :
        constraints[k].type \in PreTransformation => PreOk(constraints[k], words, i, mod)

Acceptable(constraints, original, words, mod, upper) ==
    \A k \in 1 .. Len(constraints) :
        constraints[k].type \notin PreTransformation => PostOk(constraints[k], original, words, mod, upper)

\* the candidate at position i, <<position, words>>, when it is accepted;
\* base is the sum of the word distances between original and words
CandidateAt(r, original, words, mod, s, i, base) ==
    IF ~EligibleAt(r.constraints, words, i, mod) THEN <<>>
    ELSE LET cand == [words EXCEPT ![i] = Perturb(r.transformation, words[i], s)]
         IN IF /\ cand # words
               /\ cand \notin all_transformed_texts
               /\ Acceptable(r.constraints, original, cand, mod \cup {i},
                             base - WordDistance(original[i], words[i])
                                  + WordDistance(original[i], cand[i]))
            THEN <<<<i, cand>>>>
            ELSE <<>>

\* the accepted candidates, by position
RECURSIVE CandidatesFrom(_, _, _, _, _, _, _)
CandidatesFrom(r, original, words, mod, s, i, base) ==
    IF i > Len(words) THEN <<>>
    ELSE CandidateAt(r, original, words, mod, s, i, base)
         \o CandidatesFrom(r, original, words, mod, s, i + 1, base)

\* how many words one output is to have modified
NumWordsToSwap(r, words) == Max((r.pct_words_to_swap * Len(words)) \div PctDen, 1)

(***************************************************************************)
(* The constructors of the classes that forward **kwargs to the base       *)
(* class: build the transformation and the constraints, then               *)
(* super().__init__(transformation, constraints=constraints, **kwargs).    *)
(***************************************************************************)
RecipeKw(cls) ==
    IF cls = "DeepWordBugAugmenter"
    THEN {[DefaultKw EXCEPT !.use_all_transformations = b] : b \in BOOLEAN}
    ELSE {DefaultKw}

RecipeInit(cls, pct, tpe, kw) ==
    /\ pc = "idle"
    /\ ~usable
    /\ recipe = <<>>
    /\ raised = "none"
    /\ args' = [cls |-> cls, pct_words_to_swap |-> pct, transformations_per_example |-> tpe]
    /\ IF AugmenterInitOk(pct, tpe)
       THEN /\ recipe' = AugmenterObject(cls, "recipe", pct, tpe, kw)
            /\ raised' = "ok"
       ELSE /\ recipe' = <<>>
            /\ raised' = "AssertionError"
    /\ UNCHANGED <<easyVars, rng, procVars, driverVars>>

\* the caller drops the recipe it holds, or handles the AssertionError
Discard ==
    /\ pc = "idle"
    /\ d_pc = "idle"
    /\ ~returned
    /\ usable \/ recipe # <<>> \/ raised # "none"
    /\ usable' = FALSE
    /\ self' = <<>>
    /\ recipe' = <<>>
    /\ args' = <<>>
    /\ raised' = "none"
    /\ n_aug_each' = 0
    /\ UNCHANGED <<pc, rng, procVars, result, candidates, produced, subCalls, returned,
                   driverVars>>

(***************************************************************************)
(* augment of the base class (not among the sources): build                *)
(* transformations_per_example outputs, each by accepting candidates until *)
(* the wanted number of words is modified or no candidate is left; return  *)
(* the distinct outputs.                                                   *)
(***************************************************************************)
AugmentCall(text) ==
    /\ recipe # <<>>
    /\ d_pc = "idle"
    /\ text \in TextsFor(recipe)
    /\ d_pc' = "chain"
    /\ original_text' = text
    /\ current_text' = text
    /\ modified' = {}
    /\ words_swapped' = 0
    /\ all_transformed_texts' = {}
    /\ todo' = recipe.transformations_per_example
    /\ accepted' = <<>>
    /\ UNCHANGED <<easyVars, args, raised, rng, procVars, recipe>>

StepCandidates ==
    CandidatesFrom(recipe, original_text, current_text, modified, RngNext(rng), 1,
                   SumWordDistance(original_text, current_text, 1))

\* the attributes of the recipe after one step of augment
RecipeAfterStep(r) == r

ChainAccept ==
    /\ d_pc = "chain"
    /\ words_swapped < NumWordsToSwap(recipe, original_text)
    /\ \E cands \in {StepCandidates} :
          /\ cands # <<>>
          /\ \E chosen \in {cands[RandBelow(RngNext(RngNext(rng)), Len(cands)) + 1]} :
                /\ current_text' = chosen[2]
                /\ modified' = modified \cup {chosen[1]}
                /\ accepted' = [pos |-> chosen[1], before |-> modified, words |-> chosen[2]]
    /\ rng' = RngNext(RngNext(rng))
    /\ words_swapped' = words_swapped + 1
    /\ recipe' = RecipeAfterStep(recipe)
    /\ UNCHANGED <<easyVars, args, raised, procVars, d_pc, original_text,
                   all_transformed_texts, todo>>

ChainEnd ==
    /\ d_pc = "chain"
    /\ \E reached \in {words_swapped >= NumWordsToSwap(recipe, original_text)} :
          /\ reached \/ StepCandidates = <<>>
          /\ rng' = IF reached THEN rng ELSE RngNext(rng)
    /\ all_transformed_texts' =
          IF modified = {} THEN all_transformed_texts
          ELSE all_transformed_texts \cup {current_text}
    /\ todo' = todo - 1
    /\ d_pc' = IF todo > 1 THEN "chain" ELSE "done"
    /\ current_text' = original_text
    /\ modified' = {}
    /\ words_swapped' = 0
    /\ accepted' = <<>>
    /\ recipe' = RecipeAfterStep(recipe)
    /\ UNCHANGED <<easyVars, args, raised, procVars, original_text>>

\* the caller takes the returned outputs
DriverReturn ==
    /\ d_pc = "done"
    /\ d_pc' = "idle"
    /\ original_text' = <<>>
    /\ current_text' = <<>>
    /\ all_transformed_texts' = {}
    /\ UNCHANGED <<easyVars, args, raised, rng, procVars, recipe, modified, words_swapped,
                   todo, accepted>>

Init ==
    /\ pc = "idle"
    /\ args = <<>>
    /\ n_aug_each = 0
    /\ self = <<>>
    /\ usable = FALSE
    /\ raised = "none"
    /\ rng \in Seeds
    /\ hashSeed \in HashSeeds
    /\ result = <<>>
    /\ candidates = {}
    /\ produced = 0
    /\ subCalls = <<>>
    /\ returned = FALSE
    /\ recipe = <<>>
    /\ d_pc = "idle"
    /\ original_text = <<>>
    /\ current_text = <<>>
    /\ modified = {}
    /\ words_swapped = 0
    /\ all_transformed_texts = {}
    /\ todo = 0
    /\ accepted = <<>>
    /\ runInput = <<>>
    /\ runs = <<>>

Next ==
    \/ \E pct \in PctValues, tpe \in NValues : EasyInitCall(pct, tpe)
    \/ L40 \/ L41 \/ L44 \/ L45 \/ L46 \/ L48 \/ L52 \/ L56 \/ L60
    \/ \E text \in Texts : EasyAugment(text)
    \/ TakeResult
    \/ \E cls \in ForwardingClasses, pct \in PctValues, tpe \in RecipeNValues :
          \E kw \in RecipeKw(cls) : RecipeInit(cls, pct, tpe, kw)
    \/ Discard
    \/ \E text \in DriverTexts : AugmentCall(text)
    \/ ChainAccept
    \/ ChainEnd
    \/ DriverReturn

Spec == Init /\ [][Next]_vars

(***************************************************************************)
(* SpecRuns: the script                                                    *)
(*     random.seed(seed); aug = EasyDataAugmenter(transformations_per_example=n)  *)
(*     out = aug.augment(text)                                             *)
(* run twice, each run in an interpreter process of its own, the           *)
(* sub-recipes returning the same lists in both runs.  A process draws its *)
(* string-hash salt when it starts.                                        *)
(***************************************************************************)
Runs == {1, 2}
RunNValues == 1 .. MaxRunN

RunOutputs(n) ==
    LET sub == [transformations_per_example |-> NAugEach(n)]
    IN {<<o1, o2, o3, o4>> : o1 \in SubAugmentOutputs(1, sub), o2 \in SubAugmentOutputs(2, sub),
                             o3 \in SubAugmentOutputs(3, sub), o4 \in SubAugmentOutputs(4, sub)}

RunInputs ==
    UNION {{[seed |-> sd, transformations_per_example |-> n, outputs |-> o] :
               sd \in Seeds, o \in RunOutputs(n)} : n \in RunNValues}

NotStarted == [phase |-> "not started"]

InitRuns ==
    /\ pc = "idle"
    /\ args = <<>>
    /\ n_aug_each = 0
    /\ self = <<>>
    /\ usable = FALSE
    /\ raised = "none"
    /\ rng = 0
    /\ hashSeed = 0
    /\ result = <<>>
    /\ candidates = {}
    /\ produced = 0
    /\ subCalls = <<>>
    /\ returned = FALSE
    /\ recipe = <<>>
    /\ d_pc = "idle"
    /\ original_text = <<>>
    /\ current_text = <<>>
    /\ modified = {}
    /\ words_swapped = 0
    /\ all_transformed_texts = {}
    /\ todo = 0
    /\ accepted = <<>>
    /\ runInput \in RunInputs
    /\ runs = [p \in Runs |-> NotStarted]

oneProcessVars ==
    <<easyVars, args, raised, rng, hashSeed, recipe, driverVars>>

\* run p's process starts; the second run starts when the first has ended
RunStart(p, salt) ==
    /\ runs[p].phase = "not started"
    /\ \A q \in Runs : q < p => runs[q].phase = "returned"
    /\ runs' = [runs EXCEPT ![p] = [phase |-> "started", salt |-> salt]]
    /\ UNCHANGED <<oneProcessVars, runInput>>

\* random.seed(seed)
RunSeed(p) ==
    /\ runs[p].phase = "started"
    /\ runs' = [runs EXCEPT ![p] = [phase |-> "seeded", salt |-> runs[p].salt,
                                    rng |-> runInput.seed]]
    /\ UNCHANGED <<oneProcessVars, runInput>>

\* aug = EasyDataAugmenter(transformations_per_example=n)
RunConstruct(p) ==
    /\ runs[p].phase = "seeded"
    /\ TpeAssert(runInput.transformations_per_example)
    /\ runs' = [runs EXCEPT ![p] =
                  [phase |-> "constructed", salt |-> runs[p].salt, rng |-> runs[p].rng,
                   transformations_per_example |-> runInput.transformations_per_example]]
    /\ UNCHANGED <<oneProcessVars, runInput>>

\* out = aug.augment(text)
RunAugment(p) ==
    /\ runs[p].phase = "constructed"
    /\ \E r \in {DedupShuffleTruncate(Concat4(runInput.outputs),
                                     runs[p].transformations_per_example,
                                     RngAdvance(runs[p].rng, NumSubs), runs[p].salt)} :
          runs' = [runs EXCEPT ![p] = [phase |-> "returned", salt |-> runs[p].salt,
                                       rng |-> r[2], out |-> r[1]]]
    /\ UNCHANGED <<oneProcessVars, runInput>>

NextRuns ==
    \/ \E p \in Runs, salt \in HashSeeds : RunStart(p, salt)
    \/ \E p \in Runs : RunSeed(p)
    \/ \E p \in Runs : RunConstruct(p)
    \/ \E p \in Runs : RunAugment(p)

SpecRuns == InitRuns /\ [][NextRuns]_vars

BothReturned == \A p \in Runs : runs[p].phase = "returned"

\* C4: two runs from the same seed, with the same construction parameters and
\* the same sub-recipe outputs, return the same list in the same order.
C4_SameSeedSameOutput ==
    BothReturned => runs[1].out = runs[2].out

ConstraintObjects(r) == {r.constraints[k].obj : k \in 1 .. Len(r.constraints)}
SubsBuilt == {a \in DOMAIN self : \E i \in 1 .. NumSubs : a = SubAttrs[i]}

\* C6: two recipes never hold the same constraint list object nor the same
\* constraint instance; here, for the sub-recipes of one EasyDataAugmenter.
C6_NoSharedConstraintObjects ==
    \A a, b \in SubsBuilt :
        a # b => /\ ConstraintObjects(self[a]) \cap ConstraintObjects(self[b]) = {}
                 /\ self[a].constraints_list # self[b].constraints_list

(***************************************************************************)
(* Properties.                                                             *)
(***************************************************************************)
HasConstraint(r, type) == \E k \in 1 .. Len(r.constraints) : r.constraints[k].type = type
CallFinished == pc = "idle" /\ raised # "none"
HoldsRecipe == usable \/ recipe # <<>>

\* C1: the list EasyDataAugmenter.augment returns is never longer than the
\* requested count and holds no string twice, whatever calls came before.
C1_EasyOutputBounded ==
    returned => /\ Len(result) <= self.transformations_per_example
                /\ NoDup(result)

\* the sub-recipes returned some string more than once, and more distinct
\* strings than were requested
C1_Witness ==
    /\ returned
    /\ produced > Cardinality(candidates)
    /\ Cardinality(candidates) > self.transformations_per_example
    /\ Len(result) = self.transformations_per_example

\* C2: every constructor (EasyDataAugmenter's and the forwarding ones) rejects
\* a pct_words_to_swap outside [0, 1], and accepts one inside it, 0 and 1
\* included, when the output count is valid.
C2_PctValidated ==
    CallFinished =>
        /\ (args.pct_words_to_swap < 0 \/ args.pct_words_to_swap > PctDen)
              => raised = "AssertionError" /\ ~HoldsRecipe
        /\ (/\ args.pct_words_to_swap >= 0
            /\ args.pct_words_to_swap <= PctDen
            /\ args.transformations_per_example >= 1)
              => /\ raised = "ok"
                 /\ IF args.cls = "EasyDataAugmenter" THEN usable ELSE recipe # <<>>

\* EasyDataAugmenter has rejected a fraction above 1 that came with a valid count
C2_Witness ==
    /\ CallFinished
    /\ args.cls = "EasyDataAugmenter"
    /\ args.pct_words_to_swap > PctDen
    /\ args.transformations_per_example >= 1
    /\ raised = "AssertionError"

\* C3: every constructor rejects transformations_per_example <= 0, and no
\* recipe, the sub-recipes of an EasyDataAugmenter included, ever has an
\* output count below 1.
C3_CountValidated ==
    /\ (CallFinished /\ args.transformations_per_example <= 0)
          => raised = "AssertionError" /\ ~HoldsRecipe
    /\ usable => self.transformations_per_example >= 1
    /\ \A i \in 1 .. NumSubs :
          SubAttrs[i] \in DOMAIN self => self[SubAttrs[i]].transformations_per_example >= 1
    /\ recipe # <<>> => recipe.transformations_per_example >= 1

\* EasyDataAugmenter has rejected a count of 0 that came with a valid fraction
C3_Witness ==
    /\ CallFinished
    /\ args.cls = "EasyDataAugmenter"
    /\ args.transformations_per_example = 0
    /\ args.pct_words_to_swap >= 0
    /\ args.pct_words_to_swap <= PctDen
    /\ raised = "AssertionError"

\* C5: an EasyDataAugmenter built with count n holds exactly the four
\* sub-recipes, each with count max(n // 4, 1) and its fraction; augment calls
\* each once on its text and returns min(n, number of distinct strings they
\* returned) of those strings.
C5_EasyComposition ==
    /\ usable =>
          /\ DOMAIN self = {"pct_words_to_swap", "transformations_per_example",
                            "synonym_replacement", "random_deletion", "random_swap",
                            "random_insertion"}
          /\ self.synonym_replacement.cls = "WordNetAugmenter"
          /\ self.random_deletion.cls = "DeletionAugmenter"
          /\ self.random_swap.cls = "SwapAugmenter"
          /\ self.random_insertion.cls = "SynonymInsertionAugmenter"
          /\ \A a \in {"synonym_replacement", "random_deletion", "random_swap",
                       "random_insertion"} :
                /\ self[a].transformations_per_example =
                      (IF self.transformations_per_example \div 4 >= 1
                       THEN self.transformations_per_example \div 4 ELSE 1)
                /\ self[a].pct_words_to_swap = self.pct_words_to_swap
    /\ returned =>
          /\ Len(subCalls) = 4
          /\ {subCalls[i][1] : i \in 1 .. 4} =
                {"synonym_replacement", "random_deletion", "random_swap", "random_insertion"}
          /\ \A i, j \in 1 .. 4 : subCalls[i][2] = subCalls[j][2]
          /\ Range(result) \subseteq candidates
          /\ Len(result) = Min(self.transformations_per_example, Cardinality(candidates))

\* a call with n = 8, sub-recipes of count 2, that returned fewer than 8 strings
\* because the sub-recipes' outputs overlapped
C5_Witness ==
    /\ returned
    /\ self.transformations_per_example = 8
    /\ self.random_swap.transformations_per_example = 2
    /\ produced = 8
    /\ Len(result) = 7

\* C7: no step of an augment call changes an attribute of the recipe it is
\* called on (nor a sub-recipe of an EasyDataAugmenter): once constructed, a
\* recipe stays as it is until the caller drops it.
C7_StatelessAfterConstruction ==
    [][/\ (usable /\ usable') => self' = self
       /\ (recipe # <<>> /\ recipe' # <<>>) => recipe' = recipe]_vars

\* an augment call has returned strings and moved the random source
C7_Witness ==
    /\ returned
    /\ usable
    /\ result # <<>>
    /\ rng \notin Seeds

RepeatClasses == ForwardingClasses \ {"BackTranslationAugmenter"}
StopwordClasses == ForwardingClasses \ {"BackTranslationAugmenter", "CheckListAugmenter"}

StopwordsOf(cls) == IF cls = "TextFoolerAugmenter" THEN TextFoolerStopwords ELSE DefaultStopwords
Differing(x, y) == {i \in 1 .. Len(x) : x[i] # y[i]}
OnlyAtStopwords(words, original, stopwords) ==
    /\ Differing(words, original) # {}
    /\ \A i \in Differing(words, original) : original[i] \in stopwords

\* C9: the chain of every recipe class whose list has StopwordModification,
\* wherever in the list, accepts and returns no candidate that differs from
\* the original text at stopword positions only.
C9_NoStopwordOnlyCandidate ==
    (recipe # <<>> /\ recipe.cls \in StopwordClasses) =>
        /\ HasConstraint(recipe, "StopwordModification")
        /\ accepted # <<>> =>
              ~OnlyAtStopwords(accepted.words, original_text, StopwordsOf(recipe.cls))
        /\ \A t \in all_transformed_texts :
              ~OnlyAtStopwords(t, original_text, StopwordsOf(recipe.cls))

\* PruthiAugmenter, whose list has StopwordModification second, has accepted
\* a candidate for a text with a stopword of four letters
C9_Witness ==
    /\ recipe # <<>>
    /\ recipe.cls = "PruthiAugmenter"
    /\ original_text = ShortText
    /\ accepted # <<>>

\* C10: in both modes, no text DeepWordBugAugmenter's augment returns is
\* further than 30 character edits from the original text.
C10_EditDistanceBounded ==
    (recipe # <<>> /\ recipe.cls = "DeepWordBugAugmenter" /\ d_pc = "done") =>
        \A t \in all_transformed_texts : Levenshtein(Join(t), Join(original_text)) <= 30

\* the all-four-transformations mode returns a text exactly 30 edits away
C10_Witness ==
    /\ recipe # <<>>
    /\ recipe.cls = "DeepWordBugAugmenter"
    /\ recipe.transformation.kind = "composite"
    /\ d_pc = "done"
    /\ \E t \in all_transformed_texts : Levenshtein(Join(t), Join(original_text)) = 30

\* C11: EasyDataAugmenter's constructor rejects before it has set an attribute
\* or built a sub-recipe; the caller holds an object only when it is complete
\* and its parameters are valid; and an augment call rejects nothing.
C11_FailFast ==
    [][/\ (pc # "idle" /\ raised' = "AssertionError") => (self = <<>> /\ n_aug_each = 0)
       /\ pc' # "idle" => ~usable'
       /\ usable' =>
             /\ {"pct_words_to_swap", "transformations_per_example"} \cup Range(SubAttrs)
                   = DOMAIN self'
             /\ self'.pct_words_to_swap >= 0
             /\ self'.pct_words_to_swap <= PctDen
             /\ self'.transformations_per_example >= 1
       /\ (returned' /\ ~returned) => raised' = "ok"]_vars

\* a call with both parameters invalid has been rejected, and nothing is left
\* of the object
C11_Witness ==
    /\ CallFinished
    /\ args.cls = "EasyDataAugmenter"
    /\ args.pct_words_to_swap < 0
    /\ args.transformations_per_example < 0
    /\ raised = "AssertionError"
    /\ self = <<>>
    /\ ~usable

\* C12: augment of an EasyDataAugmenter of count n returns at most
\* min(n, 4 * max(n // 4, 1)) strings, so fewer than n when n >= 5 is not a
\* multiple of 4.
C12_ImplicitBound ==
    returned =>
        LET n == self.transformations_per_example
        IN /\ Len(result) <= Min(n, 4 * Max(n \div 4, 1))
           /\ (n >= 5 /\ n % 4 # 0) => Len(result) < n

\* with n below 4 the four sub-recipes returned four different strings and n
\* of them were returned
C12_Witness ==
    /\ returned
    /\ self.transformations_per_example \in 1 .. 3
    /\ produced = 4
    /\ Cardinality(candidates) = 4
    /\ Len(result) = self.transformations_per_example

====
